---- MODULE Spec2Model ----
(***************************************************************************)
(* Model of src/app.py: a Streamlit script that reads an uploaded CSV of   *)
(* student results, validates it, groups the rows by student and sends one *)
(* e-mail per student through an SMTP session.                             *)
(*                                                                         *)
(* Streamlit executes the whole script again on every interaction; the     *)
(* button that was pressed reads True in that execution only.  st.stop()   *)
(* ends the execution and is not caught by `except Exception`.  An         *)
(* execution is taken to run to its end before the next interaction.       *)
(***************************************************************************)
EXTENDS Naturals, Sequences, FiniteSets

\* ------------------------------------------------------------------ bounds

\* Largest number of data rows in an uploaded file.
MaxRows == 3

\* ------------------------------------------------------------- input data

\* An empty student_name cell: read_csv yields NaN for it, dtype=str or not.
NaN == "NaN"

\* The student names that occur in the files, in ascending string order.
NameOrder == <<"Asha", "Bala", "Chitra">>

StudentNames == {NameOrder[i] : i \in 1..Len(NameOrder)}

NameRank(n) == CHOOSE i \in 1..Len(NameOrder) : NameOrder[i] = n

\* The parent_email values that occur in the files.
EmailA == "a@x.com"
EmailB == "b@x.com"
NotAnEmail == "not-an-email"

Addresses == {EmailA, EmailB, NotAnEmail}

\* The characters of an address, so that the syntax check is computed on them.
Chars(address) ==
    CASE address = EmailA -> <<"a", "@", "x", ".", "c", "o", "m">>
      [] address = EmailB -> <<"b", "@", "x", ".", "c", "o", "m">>
      [] address = NotAnEmail ->
            <<"n", "o", "t", "-", "a", "n", "-", "e", "m", "a", "i", "l">>

Lower == {"a", "b", "c", "d", "e", "f", "g", "h", "i", "j", "k", "l", "m",
          "n", "o", "p", "q", "r", "s", "t", "u", "v", "w", "x", "y", "z"}
Upper == {"A", "B", "C", "D", "E", "F", "G", "H", "I", "J", "K", "L", "M",
          "N", "O", "P", "Q", "R", "S", "T", "U", "V", "W", "X", "Y", "Z"}
Digit == {"0", "1", "2", "3", "4", "5", "6", "7", "8", "9"}
Alpha == Lower \cup Upper
LocalChars == Alpha \cup Digit \cup {".", "_", "%", "+", "-"}
DomainChars == Alpha \cup Digit \cup {".", "-"}

\* ^[a-zA-Z0-9._%+-]+@[a-zA-Z0-9.-]+\.[a-zA-Z]{2,}$ : position a of the "@"
\* and position d of the dot that starts the last label.
EmailMatches(address) ==
    LET s == Chars(address)
    IN  \E a \in 2..Len(s) : \E d \in (a + 2)..Len(s) :
        /\ s[a] = "@"
        /\ s[d] = "."
        /\ \A k \in 1..(a - 1) : s[k] \in LocalChars
        /\ \A k \in (a + 1)..(d - 1) : s[k] \in DomainChars
        /\ Len(s) - d >= 2
        /\ \A k \in (d + 1)..Len(s) : s[k] \in Alpha

required_columns ==
    {"student_name", "parent_email", "Course Code", "Course Name",
     "Month Year", "Grade", "Grade Points", "Credits", "Result"}

\* A data row, as far as the control flow reads it: the other seven columns
\* are only copied into the table of the report.
Rows == [student_name : StudentNames \cup {NaN}, parent_email : Addresses]

RowSeqs == UNION {[1..n -> Rows] : n \in 0..MaxRows}

\* read_csv succeeds and every required column is there.
CompleteFiles ==
    {[present |-> TRUE, parse_ok |-> TRUE, columns |-> required_columns, rows |-> r] :
        r \in RowSeqs}

\* read_csv succeeds and some required column is absent.  The script ends
\* before it reads a data row of such a file, so the rows are not modelled.
IncompleteFiles ==
    {[present |-> TRUE, parse_ok |-> TRUE, columns |-> c, rows |-> <<>>] :
        c \in (SUBSET required_columns) \ {required_columns}}

\* read_csv raises (not tabular data, non-numeric Grade Points or Credits).
UnparsableFiles ==
    {[present |-> TRUE, parse_ok |-> FALSE, columns |-> {}, rows |-> <<>>]}

Files == CompleteFiles \cup IncompleteFiles \cup UnparsableFiles

\* uploaded_file is None.
NoFile == [present |-> FALSE, parse_ok |-> FALSE, columns |-> {}, rows |-> <<>>]

\* ---------------------------------------------------------- pure functions

\* required_columns - set(df.columns)
missing_columns(columns) == required_columns \ columns

InvalidEmailsUnfiltered(rows) == <<>>

\* df[~df['parent_email'].str.match(...)]
invalid_emails(rows) ==
    SelectSeq(rows, LAMBDA r : ~EmailMatches(r.parent_email))

RECURSIVE SortNames(_)
SortNames(S) ==
    IF S = {} THEN <<>>
    ELSE LET m == CHOOSE x \in S : \A y \in S : NameRank(x) <= NameRank(y)
         IN  <<m>> \o SortNames(S \ {m})

\* The row labels 1..Len(rows) whose student_name is n, ascending.
IndexOf(rows, n) ==
    SelectSeq([i \in 1..Len(rows) |-> i], LAMBDA i : rows[i].student_name = n)

\* The sub-frame of one student: its rows with their labels, in input order.
SubFrame(rows, n) ==
    LET ix == IndexOf(rows, n)
    IN  [j \in 1..Len(ix) |->
            [index |-> ix[j], student_name |-> n,
             parent_email |-> rows[ix[j]].parent_email]]

\* The distinct names in order of first appearance (what sort=False gives).
RECURSIVE FirstSeen(_, _)
FirstSeen(rows, seen) ==
    IF rows = <<>> THEN <<>>
    ELSE LET n == Head(rows).student_name
         IN  IF n = NaN \/ n \in seen
             THEN FirstSeen(Tail(rows), seen)
             ELSE <<n>> \o FirstSeen(Tail(rows), seen \cup {n})

GroupByFirstSeen(rows) ==
    LET keys == FirstSeen(rows, {})
    IN  [g \in 1..Len(keys) |->
            [student_name |-> keys[g], student_results |-> SubFrame(rows, keys[g])]]

\* df.groupby("student_name"), iterated: sort=True and dropna=True are the
\* defaults, so the keys come in ascending order and NaN keys are left out.
groupby(rows) ==
    LET keys == SortNames({rows[i].student_name : i \in 1..Len(rows)} \ {NaN})
    IN  [g \in 1..Len(keys) |->
            [student_name |-> keys[g], student_results |-> SubFrame(rows, keys[g])]]

LastEmail(student_results) == student_results[Len(student_results)].parent_email

\* student_results["parent_email"].iloc[0]
parent_email(student_results) == student_results[1].parent_email

\* student_results["parent_email"].nunique()
nunique(student_results) ==
    Cardinality({student_results[j].parent_email : j \in 1..Len(student_results)})

\* The <tr> elements of the HTML table: the header row, then one row per row
\* of results_df, in its order.
html_rows(results_df) ==
    <<"header">> \o [j \in 1..Len(results_df) |-> results_df[j].index]

CountAll(rs) == Len(rs)

\* sum(1 for r in results if r["status"] == "success")
RECURSIVE success_count(_)
success_count(rs) ==
    IF rs = <<>> THEN 0
    ELSE (IF Head(rs).status = "success" THEN 1 ELSE 0) + success_count(Tail(rs))

\* [r for r in results if r["status"] == "error"]
error_results(rs) == SelectSeq(rs, LAMBDA r : r.status = "error")

\* The outcome send_email returns: line 80 when the body and the exit of the
\* `with` block raised nothing, line 82 with str(e) otherwise.
OutcomeIgnoringQuit(to_email, e) ==
    IF e \in {"none", "quit"}
    THEN [status |-> "success", to_email |-> to_email]
    ELSE [status |-> "error", to_email |-> to_email, error |-> e]

send_email_outcome(to_email, e) ==
    IF e = "none"
    THEN [status |-> "success", to_email |-> to_email]
    ELSE [status |-> "error", to_email |-> to_email, error |-> e]

StopsAtFirstError(i, total, rs) ==
    i < total /\ (IF rs = <<>> THEN TRUE ELSE rs[Len(rs)].status = "success")

\* for idx, (student_name, student_results) in enumerate(grouped): another
\* group is left after i of them.
loop_continues(i, total, rs) == i < total

\* ------------------------------------------------------------------ state

VARIABLES
    uploaded_file,  \* the file in the uploader, or NoFile
    clicked,        \* the button that reads True in this execution, or "none"
    pc,             \* position of the execution; "idle" between executions
    screen,         \* what this execution has displayed
    idx,            \* number of groups the loop has completed
    results,        \* the list `results` of the Send Emails branch
    msg,            \* send_email: the message built by the current call
    error,          \* send_email: the exception raised in the try block
    server,         \* state of the SMTP connection
    steps,          \* the steps the current send_email call has taken
    calls,          \* the send_email calls of this execution, with arguments
    confirmed,      \* "Continue anyway" was pressed since the upload
    ever_called     \* send_email was called since the upload

vars == <<uploaded_file, clicked, pc, screen, idx, results, msg, error, server,
          steps, calls, confirmed, ever_called>>

NoError == [kind |-> "none", columns |-> {}]
NoMsg == [To |-> "", Subject |-> "", table |-> <<>>]

Blank == [error |-> NoError, invalid |-> <<>>, buttons |-> {},
          warnings |-> <<>>, summary |-> <<>>]

df == uploaded_file.rows

grouped == groupby(df)

total_students == Len(grouped)

Init ==
    /\ uploaded_file = NoFile
    /\ clicked = "none"
    /\ pc = "idle"
    /\ screen = Blank
    /\ idx = 0
    /\ results = <<>>
    /\ msg = NoMsg
    /\ error = "none"
    /\ server = "none"
    /\ steps = <<>>
    /\ calls = <<>>
    /\ confirmed = FALSE
    /\ ever_called = FALSE

\* Every interaction starts a new execution of the script from its first line.
Rerun ==
    /\ pc' = "script"
    /\ screen' = Blank
    /\ idx' = 0
    /\ results' = <<>>
    /\ msg' = NoMsg
    /\ error' = "none"
    /\ steps' = <<>>
    /\ calls' = <<>>
    /\ UNCHANGED server

\* ------------------------------------------------------------ interactions

\* The operator puts a file into the empty uploader (line 88).  Replacing a
\* file is RemoveFile followed by Upload.
Upload ==
    /\ pc = "idle"
    /\ uploaded_file = NoFile
    /\ \E f \in Files : uploaded_file' = f
    /\ clicked' = "none"
    /\ confirmed' = FALSE
    /\ ever_called' = FALSE
    /\ Rerun

\* The operator removes the file from the uploader.
RemoveFile ==
    /\ pc = "idle"
    /\ uploaded_file # NoFile
    /\ uploaded_file' = NoFile
    /\ clicked' = "none"
    /\ confirmed' = FALSE
    /\ ever_called' = FALSE
    /\ Rerun

\* The operator presses a button the last execution displayed.
Press ==
    /\ pc = "idle"
    /\ \E b \in screen.buttons :
        /\ clicked' = b
        /\ confirmed' = (confirmed \/ b = "Continue anyway")
    /\ UNCHANGED <<uploaded_file, ever_called>>
    /\ Rerun

\* ------------------------------------------------- the script, lines 91-135

Ends(scr) ==
    /\ pc' = "idle"
    /\ screen' = scr
    /\ UNCHANGED <<uploaded_file, clicked, idx, results, msg, error, server,
                   steps, calls, confirmed, ever_called>>

\* uploaded_file is None: nothing below line 91 runs.
ScriptNoFile ==
    /\ pc = "script"
    /\ uploaded_file = NoFile
    /\ Ends(Blank)

\* read_csv raises; line 159 reports it.
ReadCsvError ==
    /\ pc = "script"
    /\ uploaded_file.present
    /\ ~uploaded_file.parse_ok
    /\ Ends([Blank EXCEPT !.error = [kind |-> "processing", columns |-> {}]])

\* Line 111 reads df['student_name'] before the columns are validated: a file
\* without that column raises KeyError('student_name'), which line 159 reports.
PreviewKeyError ==
    /\ pc = "script"
    /\ uploaded_file.present
    /\ uploaded_file.parse_ok
    /\ "student_name" \notin uploaded_file.columns
    /\ Ends([Blank EXCEPT
                !.error = [kind |-> "processing", columns |-> {"student_name"}]])

\* Lines 114-119: the missing columns are listed and the execution stops.
MissingColumns ==
    /\ pc = "script"
    /\ uploaded_file.present
    /\ uploaded_file.parse_ok
    /\ "student_name" \in uploaded_file.columns
    /\ missing_columns(uploaded_file.columns) # {}
    /\ Ends([Blank EXCEPT
                !.error = [kind |-> "schema",
                           columns |-> missing_columns(uploaded_file.columns)]])

Validated ==
    /\ pc = "script"
    /\ uploaded_file.present
    /\ uploaded_file.parse_ok
    /\ missing_columns(uploaded_file.columns) = {}

\* Lines 122-129: invalid addresses are listed with the "Continue anyway"
\* button; unless that button reads True, the execution stops.
InvalidStop ==
    /\ Validated
    /\ invalid_emails(df) # <<>>
    /\ clicked # "Continue anyway"
    /\ Ends([Blank EXCEPT !.invalid = invalid_emails(df),
                          !.buttons = {"Continue anyway"}])

PastValidation ==
    /\ Validated
    /\ invalid_emails(df) = <<>> \/ clicked = "Continue anyway"

ButtonsShown ==
    (IF invalid_emails(df) # <<>> THEN {"Continue anyway"} ELSE {}) \cup {"Send Emails"}

\* Line 135: the "Send Emails" button is displayed and reads False.
AwaitSend ==
    /\ PastValidation
    /\ clicked # "Send Emails"
    /\ Ends([Blank EXCEPT !.invalid = invalid_emails(df), !.buttons = ButtonsShown])

\* Lines 135-138: the "Send Emails" button reads True.
StartSending ==
    /\ PastValidation
    /\ clicked = "Send Emails"
    /\ pc' = "loop"
    /\ screen' = [Blank EXCEPT !.invalid = invalid_emails(df), !.buttons = ButtonsShown]
    /\ results' = <<>>
    /\ idx' = 0
    /\ UNCHANGED <<uploaded_file, clicked, msg, error, server, steps, calls,
                   confirmed, ever_called>>

\* ------------------------------------------------ the loop, lines 140-157

Step(op, ok) == steps' = Append(steps, [op |-> op, ok |-> ok])

\* Lines 80-82 and 146-147: send_email returns its outcome, which is appended
\* to results, and the progress bar advances.
Returns(to_email, e) ==
    /\ results' = Append(results, send_email_outcome(to_email, e))
    /\ idx' = idx + 1
    /\ pc' = "loop"

\* Lines 140-145 and 19-74: the address of the next group is resolved, the
\* warning is displayed when its rows carry several addresses, send_email is
\* called and builds the message, or raises while it builds it.
LoopBody ==
    /\ pc = "loop"
    /\ loop_continues(idx, total_students, results)
    /\ LET group == grouped[idx + 1]
           student_name == group.student_name
           student_results == group.student_results
           to_email == parent_email(student_results)
       IN  /\ screen' = [screen EXCEPT !.warnings =
                    IF nunique(student_results) > 1
                    THEN Append(@, [student_name |-> student_name,
                                    parent_email |-> to_email])
                    ELSE @]
           /\ calls' = Append(calls, [to_email |-> to_email,
                                      student_name |-> student_name,
                                      results_df |-> student_results])
           /\ \/ /\ steps' = <<[op |-> "build", ok |-> TRUE]>>
                 /\ msg' = [To |-> to_email, Subject |-> student_name,
                            table |-> html_rows(student_results)]
                 /\ error' = "none"
                 /\ pc' = "connect"
                 /\ UNCHANGED <<idx, results>>
              \/ /\ steps' = <<[op |-> "build", ok |-> FALSE]>>
                 /\ msg' = NoMsg
                 /\ error' = "build"
                 /\ Returns(to_email, "build")
    /\ ever_called' = TRUE
    /\ UNCHANGED <<uploaded_file, clicked, server, confirmed>>

\* Lines 150-157: the summary, after the loop has ended.
Report ==
    /\ pc = "loop"
    /\ ~loop_continues(idx, total_students, results)
    /\ screen' = [screen EXCEPT !.summary =
            <<[success_count |-> success_count(results),
               failures |-> [k \in 1..Len(error_results(results)) |->
                                [to_email |-> error_results(results)[k].to_email,
                                 error |-> error_results(results)[k].error]]]>>]
    /\ pc' = "idle"
    /\ UNCHANGED <<uploaded_file, clicked, idx, results, msg, error, server,
                   steps, calls, confirmed, ever_called>>

\* ------------------------------------------------- send_email, lines 76-82

\* The arguments of the call in progress.
Frame == calls[Len(calls)]

\* Line 76: smtplib.SMTP(SMTP_SERVER, SMTP_PORT) connects; when it raises, no
\* connection is left, the `with` block is not entered and line 82 returns.
Connect ==
    /\ pc = "connect"
    /\ \/ /\ Step("connect", TRUE)
          /\ server' = "connected"
          /\ pc' = "starttls"
          /\ UNCHANGED <<error, idx, results>>
       \/ /\ Step("connect", FALSE)
          /\ error' = "connect"
          /\ Returns(Frame.to_email, "connect")
          /\ UNCHANGED server
    /\ UNCHANGED <<uploaded_file, clicked, screen, msg, calls, confirmed,
                   ever_called>>

\* Line 77: server.starttls()
StartTLS ==
    /\ pc = "starttls"
    /\ \/ /\ Step("starttls", TRUE)
          /\ server' = "tls"
          /\ pc' = "login"
          /\ UNCHANGED error
       \/ /\ Step("starttls", FALSE)
          /\ error' = "starttls"
          /\ pc' = "exit"
          /\ UNCHANGED server
    /\ UNCHANGED <<uploaded_file, clicked, screen, idx, results, msg, calls,
                   confirmed, ever_called>>

\* Line 78: server.login(SENDER_EMAIL, SENDER_PASSWORD)
Login ==
    /\ pc = "login"
    /\ \/ /\ Step("login", TRUE)
          /\ server' = "authenticated"
          /\ pc' = "sendmail"
          /\ UNCHANGED error
       \/ /\ Step("login", FALSE)
          /\ error' = "login"
          /\ pc' = "exit"
          /\ UNCHANGED server
    /\ UNCHANGED <<uploaded_file, clicked, screen, idx, results, msg, calls,
                   confirmed, ever_called>>

\* Line 79: msg.as_string() and server.sendmail(...)
Sendmail ==
    /\ pc = "sendmail"
    /\ \/ /\ Step("sendmail", TRUE)
          /\ UNCHANGED error
       \/ /\ Step("sendmail", FALSE)
          /\ error' = "sendmail"
    /\ pc' = "exit"
    /\ UNCHANGED <<uploaded_file, clicked, screen, idx, results, msg, server,
                   calls, confirmed, ever_called>>

ExitLeavingOpenOnError ==
    /\ pc = "exit"
    /\ IF error = "none"
       THEN Step("quit", TRUE) /\ server' = "none"
       ELSE UNCHANGED <<steps, server>>
    /\ Returns(Frame.to_email, error)
    /\ UNCHANGED <<uploaded_file, clicked, screen, msg, error, calls,
                   confirmed, ever_called>>

\* Lines 76-82, leaving the `with` block on either path: SMTP.__exit__ sends
\* QUIT and closes the connection in its finally clause; a reply to QUIT other
\* than 221 raises, and that exception is the one line 81 catches.  Then
\* send_email returns.
Exit ==
    /\ pc = "exit"
    /\ \/ /\ Step("quit", TRUE)
          /\ Returns(Frame.to_email, error)
          /\ UNCHANGED error
       \/ /\ Step("quit", FALSE)
          /\ error' = "quit"
          /\ Returns(Frame.to_email, "quit")
    /\ server' = "none"
    /\ UNCHANGED <<uploaded_file, clicked, screen, msg, calls, confirmed,
                   ever_called>>

\* ------------------------------------------------------------ specification

Next ==
    \/ Upload
    \/ RemoveFile
    \/ Press
    \/ ScriptNoFile
    \/ ReadCsvError
    \/ PreviewKeyError
    \/ MissingColumns
    \/ InvalidStop
    \/ AwaitSend
    \/ StartSending
    \/ LoopBody
    \/ Report
    \/ Connect
    \/ StartTLS
    \/ Login
    \/ Sendmail
    \/ Exit

Spec == Init /\ [][Next]_vars

\* ---------------------------------------------------------------- claims

\* The positions of an execution that has entered the Send Emails branch.
SendingPcs == {"loop", "connect", "starttls", "login", "sendmail", "exit"}

\* The positions inside a send_email call.
CallPcs == SendingPcs \ {"loop"}

\* The row labels of df that carry the name n.
LabelsOf(n) == {i \in 1..Len(df) : df[i].student_name = n}

\* The row labels a send_email call was given.
LabelsIn(call) == {call.results_df[k].index : k \in 1..Len(call.results_df)}

\* Some row's parent_email fails the syntax check.
InvalidAddresses == {a \in Addresses : ~EmailMatches(a)}

HasInvalidEmail == \E i \in 1..Len(df) : df[i].parent_email \in InvalidAddresses

Summary == screen.summary[1]

\* C1: once sending has begun, send_email is called exactly once for every
\* group, in group order, whatever the earlier outcomes were, and the summary
\* is displayed only after every group has been attempted.
C1_EveryGroupAttemptedOnce ==
    pc \in SendingPcs \/ screen.summary # <<>> =>
        LET names == {df[i].student_name : i \in 1..Len(df)} \ {NaN}
            called == {calls[j].student_name : j \in 1..Len(calls)}
        IN  /\ Len(results) = idx
            /\ Len(calls) = (IF pc \in CallPcs THEN idx + 1 ELSE idx)
            /\ called \subseteq names
            /\ Cardinality(called) = Len(calls)
            /\ \A j \in 1..Len(calls) :
                  /\ LabelsIn(calls[j]) = LabelsOf(calls[j].student_name)
                  /\ \A n \in names \ called :
                        NameRank(calls[j].student_name) < NameRank(n)
            /\ screen.summary # <<>> =>
                  /\ called = names
                  /\ Len(results) = Cardinality(names)

C1_Witness ==
    /\ screen.summary # <<>>
    /\ Len(calls) = 3
    /\ results[1].status = "error"
    /\ results[2].status = "success"
    /\ results[3].status = "error"

\* C2: the summary's success_count is the number of groups whose send
\* succeeded, its failure list holds exactly the recipients and error
\* descriptions of the failed sends in processing order, and the two add up
\* to the number of groups.
C2_SummaryCountsOutcomes ==
    screen.summary # <<>> =>
        LET ok == {j \in 1..Len(results) : results[j].status = "success"}
            bad == {j \in 1..Len(results) : results[j].status = "error"}
            fl == Summary.failures
        IN  /\ Summary.success_count = Cardinality(ok)
            /\ Len(fl) = Cardinality(bad)
            /\ Summary.success_count + Len(fl) = total_students
            /\ \E f \in [1..Len(fl) -> 1..Len(results)] :
                  /\ {f[k] : k \in 1..Len(fl)} = bad
                  /\ \A k, l \in 1..Len(fl) : k < l => f[k] < f[l]
                  /\ \A k \in 1..Len(fl) :
                        /\ fl[k].to_email = calls[f[k]].to_email
                        /\ fl[k].error = results[f[k]].error

C2_Witness ==
    /\ screen.summary # <<>>
    /\ total_students = 3
    /\ results[1].status = "success"
    /\ results[2].status = "error"
    /\ results[3].status = "success"
    /\ Summary.success_count = 2
    /\ Len(Summary.failures) = 1
    /\ Summary.failures[1].to_email = calls[2].to_email

\* The steps of a call in which nothing failed.
AllSteps == <<"build", "connect", "starttls", "login", "sendmail", "quit">>

\* C3: every send_email call returns exactly one outcome and never raises to
\* its caller; the outcome carries the recipient the call was given; it is an
\* error naming a failed step when a step failed, and success only when the
\* build, connect, STARTTLS, login, submission and close all succeeded.
C3_OneOutcomePerCall ==
    /\ calls # <<>> => screen.error = NoError
    /\ pc \in {"loop", "idle"} => Len(results) = Len(calls)
    /\ \A j \in 1..Len(results) :
          /\ results[j].to_email = calls[j].to_email
          /\ results[j].status \in {"success", "error"}
    /\ pc \in {"loop", "idle"} /\ results # <<>> =>
          LET r == results[Len(results)]
              failed == {steps[k].op : k \in {i \in 1..Len(steps) : ~steps[i].ok}}
          IN  /\ r.status = "success" <=> failed = {}
              /\ r.status = "success" =>
                    [k \in 1..Len(steps) |-> steps[k].op] = AllSteps
              /\ r.status = "error" => r.error \in failed

C3_Witness ==
    /\ pc = "loop"
    /\ Len(results) = 2
    /\ results[1].status = "success"
    /\ results[2].status = "error"
    /\ results[2].error = "login"
    /\ results[2].to_email = EmailB

\* C4: while some parent_email fails the syntax check and the operator has
\* not pressed "Continue anyway", no interaction leads to a send_email call:
\* no outcome is recorded and no summary is displayed.
C4_NoSendWithoutConfirmation ==
    HasInvalidEmail /\ ~confirmed =>
        /\ ~ever_called
        /\ calls = <<>>
        /\ results = <<>>
        /\ screen.summary = <<>>
        /\ pc \notin SendingPcs
        /\ "Send Emails" \notin screen.buttons

C4_Witness ==
    /\ HasInvalidEmail
    /\ ~confirmed
    /\ pc = "idle"
    /\ total_students >= 1
    /\ screen.invalid # <<>>
    /\ screen.buttons = {"Continue anyway"}

\* C5: with invalid addresses in the input, pressing "Continue anyway" and
\* then "Send Emails" ends in an execution that attempted every group and
\* displayed the summary.
C5_ContinueThenSendReachesSending ==
    /\ HasInvalidEmail
    /\ total_students >= 1
    /\ confirmed
    /\ clicked = "Send Emails"
    /\ pc = "idle"
    => /\ Len(calls) = total_students
       /\ screen.summary # <<>>

\* C6: a file lacking a non-empty set M of required columns ends with a
\* schema error that lists exactly M, and no send_email call is made.
C6_SchemaErrorListsMissing ==
    /\ uploaded_file.present
    /\ uploaded_file.parse_ok
    /\ uploaded_file.columns # required_columns
    /\ pc = "idle"
    => /\ screen.error = [kind |-> "schema",
                          columns |-> required_columns \ uploaded_file.columns]
       /\ ~ever_called

\* C7 as stated: the groups are attempted in the order in which their names
\* first appear in the input rows.
C7_FirstSeenOrder ==
    \A j, k \in 1..Len(calls) :
        j < k => calls[j].results_df[1].index < calls[k].results_df[1].index

\* C7 as amended: the groups are attempted in ascending order of
\* student_name, wherever their rows stand in the input.
C7_AscendingNameOrder ==
    \A j, k \in 1..Len(calls) :
        j < k => NameRank(calls[j].student_name) < NameRank(calls[k].student_name)

C7_Witness ==
    /\ Len(calls) = 2
    /\ calls[1].student_name = "Asha"
    /\ calls[2].student_name = "Chitra"
    /\ calls[1].results_df[1].index > calls[2].results_df[1].index

Min(S) == CHOOSE i \in S : \A k \in S : i <= k

\* C8: every report goes to the parent_email of its group's first input row;
\* the warning naming the student and that address is displayed exactly when
\* the group's rows carry more than one distinct address; the report holds
\* all rows of the group.
C8_FirstRowAddress ==
    \A j \in 1..Len(calls) :
        LET n == calls[j].student_name
            labels == LabelsOf(n)
            first == df[Min(labels)].parent_email
            several == Cardinality({df[i].parent_email : i \in labels}) > 1
            warned == {w \in 1..Len(screen.warnings) :
                          screen.warnings[w].student_name = n}
        IN  /\ calls[j].to_email = first
            /\ Cardinality(warned) = (IF several THEN 1 ELSE 0)
            /\ \A w \in warned : screen.warnings[w].parent_email = first
            /\ LabelsIn(calls[j]) = labels
            /\ j = Len(calls) /\ msg # NoMsg =>
                  /\ msg.To = first
                  /\ Len(msg.table) = 1 + Cardinality(labels)
                  /\ {msg.table[k] : k \in 2..Len(msg.table)} = labels

C8_Witness ==
    /\ Len(df) = 3
    /\ \A i \in 1..3 : df[i].student_name = "Bala"
    /\ df[1].parent_email = EmailA
    /\ df[2].parent_email = EmailA
    /\ df[3].parent_email = EmailB
    /\ Len(calls) = 1
    /\ calls[1].to_email = EmailA
    /\ screen.warnings = <<[student_name |-> "Bala", parent_email |-> EmailA]>>
    /\ Len(msg.table) = 4

\* C9: grouping yields one non-empty group per distinct student_name, every
\* input row is in exactly one group, the rows of a group keep their input
\* order, and the tables of all reports together have as many rows as the
\* input.
C9_EveryRowInOneGroup ==
    screen.summary # <<>> =>
        /\ Len(calls) = Cardinality({df[i].student_name : i \in 1..Len(df)} \ {NaN})
        /\ \A j \in 1..Len(calls) :
              /\ calls[j].results_df # <<>>
              /\ \A k, l \in 1..Len(calls[j].results_df) :
                    k < l => calls[j].results_df[k].index < calls[j].results_df[l].index
        /\ \A i \in 1..Len(df) :
              Cardinality({j \in 1..Len(calls) : i \in LabelsIn(calls[j])}) = 1
        /\ Len(df) = Cardinality(UNION {LabelsIn(calls[j]) : j \in 1..Len(calls)})

\* The positions in steps of the attempts of op, and whether op succeeded.
Tried(op) == {k \in 1..Len(steps) : steps[k].op = op}

Done(op) == \E k \in 1..Len(steps) : steps[k] = [op |-> op, ok |-> TRUE]

\* C10: a session is opened, upgraded, authenticated, used for at most one
\* message and closed inside one send_email call: nothing is submitted before
\* STARTTLS and login succeeded, and no session is open when the call
\* returns, between calls or after the run.
C10_SessionScopedToCall ==
    /\ server # "none" => pc \in {"starttls", "login", "sendmail", "exit"}
    /\ pc = "connect" => server = "none"
    /\ server = "connected" <=> pc \in CallPcs /\ Done("connect") /\ ~Done("starttls")
    /\ server = "tls" <=> pc \in CallPcs /\ Done("starttls") /\ ~Done("login")
    /\ server = "authenticated" <=> pc \in CallPcs /\ Done("login")
    /\ \A k, l \in 1..Len(steps) : steps[k].op = steps[l].op => k = l
    /\ \A k \in 1..Len(steps) :
          /\ steps[k].op = "sendmail" =>
                /\ \E c \in 1..(k - 1) : steps[c] = [op |-> "connect", ok |-> TRUE]
                /\ \E t \in 1..(k - 1) : steps[t] = [op |-> "starttls", ok |-> TRUE]
                /\ \E l \in 1..(k - 1) : steps[l] = [op |-> "login", ok |-> TRUE]
          /\ steps[k].op = "login" =>
                \E t \in 1..(k - 1) : steps[t] = [op |-> "starttls", ok |-> TRUE]
          /\ steps[k].op = "quit" => k = Len(steps) /\ Done("connect")
    /\ pc \notin CallPcs /\ Done("connect") => Tried("quit") # {}

C10_Witness ==
    /\ pc = "loop"
    /\ Len(results) = 2
    /\ results[1].status = "success"
    /\ results[2].status = "error"
    /\ results[2].error = "sendmail"
    /\ server = "none"
    /\ [k \in 1..Len(steps) |-> steps[k].op] = AllSteps

====
